---- MODULE Spec2Model ----
(***************************************************************************)
(* A model of finetuning_glrb/finetune_chromatin.py: the forward pass of   *)
(* DNAModelForChromatineFeatures (window location and pooling), the        *)
(* chromosome recast, the data modules' _split_dataset and filter of N's,  *)
(* the accumulator lists of Lit_ChromatinFeatures and the cross-validation *)
(* loop of finetune_histone_marks / finetune_dna_accessibility.            *)
(*                                                                         *)
(* Tensors are functions over 0-based index ranges, as in torch.  A mean   *)
(* is kept as an exact fraction [num, den]; floating point rounding is not *)
(* modelled.  The prediction head (a two layer MLP) is applied to the      *)
(* pooled vector and is not modelled: the forward pass is followed up to   *)
(* the vector handed to self.head.                                         *)
(***************************************************************************)
EXTENDS Integers, Sequences, FiniteSets, TLC

VARIABLES
    \* ---- DNAModelForChromatineFeatures.forward
    fwd_pc,            \* "call" before forward runs, "returned" after
    rcps,              \* self.rcps
    bp_per_token,      \* self.bp_per_token
    embeds_out,        \* self.backbone(input_ids)[0]: [batch][token][channel]
    indices_ref,       \* expanded_indices used to gather the reference half
    indices_rc,        \* expanded_indices used to gather the rc half (rcps only)
    head_input,        \* the pooled vector passed to self.head: [batch][channel]
    \* ---- dataset.map(recast_chromosome, remove_columns=["chromosome"])
    chromosome_column, \* the "chromosome" field of every example of the dataset
    raw_chromosomes,   \* the column as downloaded (history)
    prev_chromosomes,  \* the column before the latest map (history)
    recast_calls,      \* how many times the map has run
    \* ---- HistoneMarksDataModule / DNAAccessibilityDataModule
    prepared,          \* what prepare_data() returns: the preprocessed dataset
    dataset,           \* self.dataset (None until setup)
    test_dataset,      \* self.test_dataset
    train_dataset,     \* self.train_dataset
    val_dataset,       \* self.val_dataset
    validation_chromosome, \* self.validation_chromosome (NoChromosome: not set)
    last_split_arg,    \* the argument of the latest _split_dataset call (history)
    split_count,       \* the number of _split_dataset calls so far (history)
    \* ---- finetune_histone_marks / finetune_dna_accessibility
    pc,                \* where the run is
    rng_state,         \* the state of numpy's global generator
    held_chromosomes,  \* held_chromosomes
    idx,               \* idx of the for loop (0-based, as enumerate gives it)
    best_model_score,  \* checkpoint_callback.best_model_score (NoScore: None)
    val_loss,          \* the val_loss logged by the latest validation
    val_checks,        \* validations run by this fold's trainer.fit so far
    disk,              \* the checkpoint files: path -> saved snapshot
    loaded,            \* the snapshot trainer.test loaded (NoSnapshot: none yet)
    fold_status,       \* per fold: pending, active, finished or aborted (history)
    fold_min_loss,     \* the lowest val_loss seen in this fold (history)
    written,           \* every checkpoint write: [fold, path] (history)
    \* ---- a second run of finetune_histone_marks / finetune_dna_accessibility
    \*      (another process, with its own numpy generator)
    twin_pc,           \* where the second run is
    twin_train,        \* its data_module.dataset["train"]
    twin_rng_state,    \* the state of its numpy generator
    twin_held_chromosomes, \* its held_chromosomes
    \* ---- _download_and_preprocess_data: the filter of sequences with N's
    pre_pc,            \* "loaded" before dataset.filter runs, "filtered" after
    self_seq_len,      \* self.seq_len, the configured sequence length in bp
    loaded_sequences,  \* the "sequence" column of the loaded dataset (history)
    sequences,         \* the "sequence" column of dataset
    \* ---- Lit_ChromatinFeatures, driven by the trainer
    lit_pc,            \* the loop the trainer is in
    validation_step_preds,  \* self.validation_step_preds
    validation_step_labels, \* self.validation_step_labels
    training_step_preds,    \* self.training_step_preds
    training_step_labels,   \* self.training_step_labels
    metric_inputs,     \* what the latest epoch-end hook passed to the metrics
    executed,          \* per kind of step: the batches since its latest epoch end (history)
    hook_batches,      \* the batches the latest epoch-end hook stands for (history)
    last_call,         \* the latest method of the module the trainer called (history)
    current_epoch,     \* trainer.current_epoch
    val_runs           \* validation loops run so far

fwdVars == <<fwd_pc, rcps, bp_per_token, embeds_out, indices_ref, indices_rc, head_input>>

recastVars == <<chromosome_column, raw_chromosomes, prev_chromosomes, recast_calls>>

dmVars == <<prepared, dataset, test_dataset, train_dataset, val_dataset,
            validation_chromosome, last_split_arg, split_count>>

cvVars == <<pc, rng_state, held_chromosomes, idx, best_model_score, val_loss,
            val_checks, disk, loaded, fold_status, fold_min_loss, written>>

twinVars == <<twin_pc, twin_train, twin_rng_state, twin_held_chromosomes>>

preVars == <<pre_pc, self_seq_len, loaded_sequences, sequences>>

litVars == <<lit_pc, validation_step_preds, validation_step_labels,
             training_step_preds, training_step_labels, metric_inputs,
             executed, hook_batches, last_call, current_epoch, val_runs>>

vars == <<fwdVars, recastVars, dmVars, cvVars, twinVars, preVars, litVars>>

-----------------------------------------------------------------------------
(* Bounds of the model *)

MaxTokenCount == 6
MaxBatchSize == 2
MaxBpPerToken == 4
NumRecastExamples == 2
MaxRecastCalls == 2
MaxSplitChromosome == 2
NumSplitExamples == 3
NumTestExamples == 1
MaxSplits == 2
MaxChromosome == 5
MaxValChecks == 2
MaxValLoss == 2
NumPreExamples == 2
MaxNCount == 3
MaxSteps == 2
MaxLoops == 2

(* Program constants *)

WINDOW_SIZE_BP == 200
FILTER_BATCH_SIZE == 1000
NumFolds == 5

-----------------------------------------------------------------------------
(* Generic helpers *)

\* s[lo] + ... + s[hi], by halving (the recursion stays shallow for long windows)
RECURSIVE SumRange(_, _, _)
SumRange(s, lo, hi) ==
    IF lo > hi THEN 0
    ELSE IF lo = hi THEN s[lo]
    ELSE LET mid == (lo + hi) \div 2
         IN  SumRange(s, lo, mid) + SumRange(s, mid + 1, hi)

SumSeq(s) == SumRange(s, 1, Len(s))

\* the number of entries of a tensor dimension indexed 0..n-1
Size(f) == Cardinality(DOMAIN f)

-----------------------------------------------------------------------------
(* DNAModelForChromatineFeatures.forward *)

\* window_size = WINDOW_SIZE_BP // self.bp_per_token // 2
window_size_no_halving(bp) == WINDOW_SIZE_BP \div bp
window_size(bp) == (WINDOW_SIZE_BP \div bp) \div 2

\* torch.arange(lo, hi): lo, lo+1, ..., hi-1
arange_from_zero(lo, hi) == [i \in 1..(hi - lo) |-> i - 1]
arange_inclusive(lo, hi) == [i \in 1..(hi - lo + 1) |-> lo + i - 1]
arange(lo, hi) == [i \in 1..(hi - lo) |-> lo + i - 1]

\* torch.clamp(x, lo, hi) on one entry
clamp(x, lo, hi) == IF x < lo THEN lo ELSE IF x > hi THEN hi ELSE x

\* torch.arange(-window_size, window_size + 1).unsqueeze(0).expand(batch_size, -1)
\*   + seq_len // 2, then torch.clamp(., 0, size1 - 1)
expanded_indices_low_center(ws, batch_size, seq_len, size1) ==
    LET row == arange(-ws, ws + 1)
    IN  [b \in 0..(batch_size - 1) |->
            [k \in DOMAIN row |-> clamp(row[k] + (seq_len - 1) \div 2, 0, size1 - 1)]]
expanded_indices(ws, batch_size, seq_len, size1) ==
    LET row == arange(-ws, ws + 1)
    IN  [b \in 0..(batch_size - 1) |->
            [k \in DOMAIN row |-> clamp(row[k] + seq_len \div 2, 0, size1 - 1)]]

\* embeds_out[..., lo:hi]
slice_channels(t, lo, hi) ==
    [b \in DOMAIN t |-> [tok \in DOMAIN t[b] |-> [c \in 0..(hi - lo - 1) |-> t[b][tok][lo + c]]]]

\* tensor.flip(dims=[1, 2])
flip_tokens_only(t) ==
    [b \in DOMAIN t |->
        [tok \in DOMAIN t[b] |->
            [c \in DOMAIN t[b][tok] |-> t[b][Size(t[b]) - 1 - tok][c]]]]
flip_1_2(t) ==
    [b \in DOMAIN t |->
        [tok \in DOMAIN t[b] |->
            [c \in DOMAIN t[b][tok] |->
                t[b][Size(t[b]) - 1 - tok][Size(t[b][tok]) - 1 - c]]]]

\* torch.gather(t, 1, indices.unsqueeze(-1).expand(-1, -1, t.size(2)))
gather_1(t, indices) ==
    [b \in DOMAIN t |->
        [k \in DOMAIN indices[b] |->
            [c \in DOMAIN t[b][0] |-> t[b][indices[b][k]][c]]]]

\* tensor.mean(dim=1) of a gathered [batch][k][channel] tensor, as a fraction
sum_1(g) ==
    [b \in DOMAIN g |->
        [c \in DOMAIN g[b][1] |->
            [num |-> SumSeq([k \in DOMAIN g[b] |-> g[b][k][c]]), den |-> 1]]]
mean_1(g) ==
    [b \in DOMAIN g |->
        [c \in DOMAIN g[b][1] |->
            [num |-> SumSeq([k \in DOMAIN g[b] |-> g[b][k][c]]), den |-> Len(g[b])]]]

\* tokens_window_rc + tokens_window_ref, element-wise on fractions
add(x, y) ==
    [b \in DOMAIN x |->
        [c \in DOMAIN x[b] |->
            [num |-> x[b][c].num * y[b][c].den + y[b][c].num * x[b][c].den,
             den |-> x[b][c].den * y[b][c].den]]]

\* the rcps branch of forward
ForwardRcps ==
    /\ fwd_pc = "call"
    /\ rcps
    /\ LET num_channels == Size(embeds_out[0][0])
           ws == window_size(bp_per_token)
           batch_size == Size(embeds_out)
           seq_len == Size(embeds_out[0])
           embeds == slice_channels(embeds_out, 0, num_channels \div 2)
           indices1 == expanded_indices(ws, batch_size, seq_len, Size(embeds[0]))
           tokens_window_ref == gather_1(embeds, indices1)
           rc_embeds == flip_1_2(slice_channels(embeds_out, num_channels \div 2, num_channels))
           indices2 == expanded_indices(ws, batch_size, seq_len, Size(rc_embeds[0]))
           tokens_window_rc == gather_1(rc_embeds, indices2)
       IN  /\ indices_ref' = indices1
           /\ indices_rc' = indices2
           /\ head_input' = add(mean_1(tokens_window_rc), mean_1(tokens_window_ref))
    /\ fwd_pc' = "returned"
    /\ UNCHANGED <<rcps, bp_per_token, embeds_out>>
    /\ UNCHANGED <<recastVars, dmVars, cvVars, twinVars, preVars, litVars>>

\* the non-rcps branch of forward
ForwardPlain ==
    /\ fwd_pc = "call"
    /\ ~rcps
    /\ LET ws == window_size(bp_per_token)
           batch_size == Size(embeds_out)
           seq_len == Size(embeds_out[0])
           indices == expanded_indices(ws, batch_size, seq_len, Size(embeds_out[0]))
       IN  /\ indices_ref' = indices
           /\ indices_rc' = <<>>
           /\ head_input' = mean_1(gather_1(embeds_out, indices))
    /\ fwd_pc' = "returned"
    /\ UNCHANGED <<rcps, bp_per_token, embeds_out>>
    /\ UNCHANGED <<recastVars, dmVars, cvVars, twinVars, preVars, litVars>>

-----------------------------------------------------------------------------
(* recast_chromosome *)

\* A Python value of the "chromosome" field: a str (its characters), an int, or
\* the ValueError int() raises.
PyStr(chars) == [kind |-> "str", chars |-> chars, n |-> 0]
PyInt(n) == [kind |-> "int", chars |-> <<>>, n |-> n]
ValueError == [kind |-> "ValueError", chars |-> <<>>, n |-> 0]

Digits == <<"0", "1", "2", "3", "4", "5", "6", "7", "8", "9">>

IsDigit(ch) == \E d \in 1..10 : Digits[d] = ch
DigitValue(ch) == (CHOOSE d \in 1..10 : Digits[d] = ch) - 1

\* the value of a string of decimal digits, most significant first
RECURSIVE DecimalValue(_)
DecimalValue(chars) ==
    IF chars = <<>> THEN 0
    ELSE 10 * DecimalValue(SubSeq(chars, 1, Len(chars) - 1)) + DigitValue(chars[Len(chars)])

\* int(v): an int is returned as it is, a str of digits is parsed
int(v) ==
    IF v.kind = "int" THEN v
    ELSE IF v.kind = "str" /\ v.chars # <<>> /\ \A i \in DOMAIN v.chars : IsDigit(v.chars[i])
         THEN PyInt(DecimalValue(v.chars))
         ELSE ValueError

\* -1 if examples["chromosome"] in ["X","Y"] else int(examples["chromosome"])
recast_chromosome_x_only(chromosome) ==
    IF chromosome \in {PyStr(<<"X">>)} THEN PyInt(-1) ELSE int(chromosome)
recast_chromosome(chromosome) ==
    IF chromosome \in {PyStr(<<"X">>), PyStr(<<"Y">>)} THEN PyInt(-1) ELSE int(chromosome)

\* dataset.map(recast_chromosome, remove_columns=["chromosome"])
MapRecastChromosome ==
    /\ recast_calls < MaxRecastCalls
    /\ chromosome_column' =
         [i \in DOMAIN chromosome_column |-> recast_chromosome(chromosome_column[i])]
    /\ prev_chromosomes' = chromosome_column
    /\ recast_calls' = recast_calls + 1
    /\ UNCHANGED raw_chromosomes
    /\ UNCHANGED <<fwdVars, dmVars, cvVars, twinVars, preVars, litVars>>

\* the decimal name of autosome n (1..22)
AutosomeName(n) ==
    IF n < 10 THEN <<Digits[n + 1]>> ELSE <<Digits[(n \div 10) + 1], Digits[(n % 10) + 1]>>

\* the chromosome names of the downloaded dataset: "1".."22", "X", "Y"
ChromosomeNames == {PyStr(AutosomeName(n)) : n \in 1..22} \cup {PyStr(<<"X">>), PyStr(<<"Y">>)}

-----------------------------------------------------------------------------
(* HistoneMarksDataModule / DNAAccessibilityDataModule (the two classes have   *)
(* the same setup and _split_dataset)                                          *)

\* recast chromosomes of the examples: autosomes 1, 2, ..., and -1 for X and Y
SplitChromosomes == {-1} \cup (1..MaxSplitChromosome)
ChromosomeValues == {-1} \cup (1..MaxChromosome)

\* not a chromosome: self.validation_chromosome before the first split
NoChromosome == 0

\* self.dataset = None
None == [loaded |-> FALSE, train |-> <<>>, test |-> <<>>]

\* a dataset with a train and a test partition; an example is [id, chromosome]
DatasetDict(train, test) == [loaded |-> TRUE, train |-> train, test |-> test]

\* the rows of ds from index i on for which the batched predicate
\* [c != ch for c in examples["chromosome"]] (or ==, when equal) is true, one
\* batch of batch_size rows at a time, in the order of ds
RECURSIVE filter_batches(_, _, _, _)
filter_batches(ds, ch, equal, i) ==
    IF i > Len(ds) THEN <<>>
    ELSE LET last == IF i + FILTER_BATCH_SIZE - 1 < Len(ds)
                     THEN i + FILTER_BATCH_SIZE - 1 ELSE Len(ds)
             examples == SubSeq(ds, i, last)
             keep(e) == IF equal THEN e.chromosome = ch ELSE e.chromosome # ch
         IN  SelectSeq(examples, keep) \o filter_batches(ds, ch, equal, last + 1)

\* Dataset.filter(lambda examples: [...], batched=True, batch_size=1000)
filter(ds, ch, equal) == filter_batches(ds, ch, equal, 1)

\* the partition _split_dataset filters: self.dataset["train"]
previous_train_subset == IF split_count = 0 THEN dataset.train ELSE train_dataset
split_source == dataset.train

\* setup(): self.dataset = self.prepare_data(); self.test_dataset = self.dataset["test"]
setup ==
    /\ dataset' = prepared
    /\ test_dataset' = prepared.test
    /\ UNCHANGED <<prepared, train_dataset, val_dataset, validation_chromosome,
                   last_split_arg, split_count>>

\* _split_dataset(selected_validation_chromosome)
split_dataset(selected_validation_chromosome) ==
    /\ train_dataset' = filter(split_source, selected_validation_chromosome, FALSE)
    /\ val_dataset' = filter(split_source, selected_validation_chromosome, TRUE)
    /\ validation_chromosome' = selected_validation_chromosome
    /\ last_split_arg' = selected_validation_chromosome
    /\ split_count' = split_count + 1
    /\ UNCHANGED <<prepared, dataset, test_dataset>>

\* data_module.setup() called on a constructed data module
Setup ==
    /\ ~dataset.loaded
    /\ setup
    /\ UNCHANGED <<fwdVars, recastVars, cvVars, twinVars, preVars, litVars>>

\* data_module._split_dataset(ch) called with any chromosome
SplitDataset ==
    /\ dataset.loaded
    /\ split_count < MaxSplits
    /\ \E ch \in SplitChromosomes : split_dataset(ch)
    /\ UNCHANGED <<fwdVars, recastVars, cvVars, twinVars, preVars, litVars>>

-----------------------------------------------------------------------------
(* finetune_histone_marks / finetune_dna_accessibility (the two functions     *)
(* differ in the data module class and the project name only)                 *)

NoScore == 0
NoSnapshot == [fold |-> 0, val_loss |-> 0]

\* one step of the generator: a small linear congruential generator stands for
\* numpy's Mersenne Twister; like it, it is a function of its state alone
rng_next(s) == (5 * s + 3) % 16

\* np.random.seed(0)
seed(n) == n % 16

\* the Fisher-Yates shuffle behind np.random.permutation: positions i, i-1, ..., 2
RECURSIVE shuffle(_, _, _)
shuffle(perm, i, s) ==
    IF i < 2 THEN [perm |-> perm, state |-> s]
    ELSE LET s1 == rng_next(s)
             j == (s1 % i) + 1
             swapped == [perm EXCEPT ![i] = perm[j], ![j] = perm[i]]
         IN  shuffle(swapped, i - 1, s1)

\* size independent draws (replace=True)
RECURSIVE draws(_, _, _)
draws(a, size, s) ==
    IF size = 0 THEN [out |-> <<>>, state |-> s]
    ELSE LET s1 == rng_next(s)
             rest == draws(a, size - 1, s1)
         IN  [out |-> <<a[(s1 % Len(a)) + 1]>> \o rest.out, state |-> rest.state]

\* np.random.choice(a, size, replace=False): the first size entries of a
\* permutation of a
choice_with_replacement(a, size, s) == draws(a, size, s)
choice(a, size, s) ==
    LET r == shuffle([k \in 1..Len(a) |-> k], Len(a), s)
    IN  [out |-> [k \in 1..size |-> a[r.perm[k]]], state |-> r.state]

\* the elements of a set of integers in increasing order
RECURSIVE sorted(_)
sorted(S) ==
    IF S = {} THEN <<>>
    ELSE LET least == CHOOSE x \in S : \A y \in S : x <= y
         IN  <<least>> \o sorted(S \ {least})

\* the distinct chromosomes of ds in the order of their first appearance
RECURSIVE unique_in_order_of_appearance(_)
unique_in_order_of_appearance(ds) ==
    IF ds = <<>> THEN <<>>
    ELSE LET front == unique_in_order_of_appearance(SubSeq(ds, 1, Len(ds) - 1))
             last == ds[Len(ds)].chromosome
         IN  IF \E k \in DOMAIN front : front[k] = last THEN front
             ELSE front \o <<last>>

\* np.unique(data_module.dataset["train"]["chromosome"])
unique(ds) == sorted({ds[i].chromosome : i \in DOMAIN ds})

\* f"{val_chromosome}": the decimal digits, after a minus sign when negative
format(n) == IF n < 0 THEN <<"-">> \o AutosomeName(-n) ELSE AutosomeName(n)

\* the file ModelCheckpoint writes: dirpath f"{args.save_dir}/checkpoints",
\* filename f"best-checkpoint-on-chromosome{val_chromosome}", extension ".ckpt"
checkpoint_filepath(val_chromosome) ==
    [dir |-> <<"save_dir", "checkpoints">>,
     file |-> <<"best-checkpoint-on-chromosome">> \o format(val_chromosome) \o <<".ckpt">>]

\* a path without its "." components
normpath(path) ==
    [dir |-> SelectSeq(path.dir, LAMBDA d : d # "."), file |-> path.file]

\* ckpt_path=f"./{args.save_dir}/checkpoints/best-checkpoint-on-chromosome{val_chromosome}.ckpt"
ckpt_path(val_chromosome) ==
    normpath([dir |-> <<".", "save_dir", "checkpoints">>,
              file |-> <<"best-checkpoint-on-chromosome">> \o format(val_chromosome) \o <<".ckpt">>])

\* val_chromosome of the current iteration of the for loop
val_chromosome == held_chromosomes[idx + 1]

\* the for loop is over: every entry of held_chromosomes has had its iteration
loop_finished_one_early(i) == i >= Len(held_chromosomes) - 1
loop_finished(i) == i >= Len(held_chromosomes)

\* where an exception raised inside the loop body leads: no try/except catches
\* it, so it leaves the function
after_exception_retry == "train"
after_exception == "failed"

\* candidates = np.unique(data_module.dataset["train"]["chromosome"])
candidates == unique(dataset.train)

\* wandb.login(...); data_module = ...DataModule(args); data_module.setup()
SetupRun ==
    /\ pc = "start"
    /\ setup
    /\ pc' = "seed"
    /\ UNCHANGED <<rng_state, held_chromosomes, idx, best_model_score, val_loss,
                   val_checks, disk, loaded, fold_status, fold_min_loss, written>>
    /\ UNCHANGED <<fwdVars, recastVars, twinVars, preVars, litVars>>

\* np.random.seed(0)
SeedGenerator ==
    /\ pc = "seed"
    /\ rng_state' = seed(0)
    /\ pc' = "choose"
    /\ UNCHANGED <<held_chromosomes, idx, best_model_score, val_loss, val_checks,
                   disk, loaded, fold_status, fold_min_loss, written>>
    /\ UNCHANGED <<fwdVars, recastVars, dmVars, twinVars, preVars, litVars>>

\* candidates = np.unique(...); held_chromosomes = np.random.choice(candidates, 5,
\* replace=False); the for loop starts with idx = 0
ChooseHeldOut ==
    /\ pc = "choose"
    /\ held_chromosomes' = choice(candidates, NumFolds, rng_state).out
    /\ rng_state' = choice(candidates, NumFolds, rng_state).state
    /\ idx' = 0
    /\ pc' = "split"
    /\ UNCHANGED <<best_model_score, val_loss, val_checks, disk, loaded,
                   fold_status, fold_min_loss, written>>
    /\ UNCHANGED <<fwdVars, recastVars, dmVars, twinVars, preVars, litVars>>

\* the head of the loop body: WandbLogger(...), data_module._split_dataset(val_chromosome),
\* model = Lit_ChromatinFeatures(args), checkpoint_callback = ModelCheckpoint(...),
\* trainer = pl.Trainer(...)
SplitFold ==
    /\ pc = "split"
    /\ split_dataset(val_chromosome)
    /\ best_model_score' = NoScore
    /\ val_checks' = 0
    /\ val_loss' = NoScore
    /\ fold_min_loss' = NoScore
    /\ fold_status' = [fold_status EXCEPT ![idx + 1] = "active"]
    /\ pc' = "train"
    /\ UNCHANGED <<rng_state, held_chromosomes, idx, disk, loaded, written>>
    /\ UNCHANGED <<fwdVars, recastVars, twinVars, preVars, litVars>>

\* trainer.fit: training up to the next validation check, and the validation
\* loop, which logs val_loss
TrainAndValidate ==
    /\ pc = "train"
    /\ val_checks < MaxValChecks
    /\ \E loss \in 1..MaxValLoss :
         /\ val_loss' = loss
         /\ fold_min_loss' =
              IF fold_min_loss = NoScore \/ loss < fold_min_loss THEN loss ELSE fold_min_loss
    /\ val_checks' = val_checks + 1
    /\ pc' = "checkpoint"
    /\ UNCHANGED <<rng_state, held_chromosomes, idx, best_model_score, disk, loaded,
                   fold_status, written>>
    /\ UNCHANGED <<fwdVars, recastVars, dmVars, twinVars, preVars, litVars>>

\* trainer.fit: ModelCheckpoint(save_top_k=1, monitor="val_loss", mode="min")
\* after a validation: the model is saved when there is no best score yet or
\* val_loss is below it.  Then training goes on, or trainer.fit returns.
CheckpointCallback ==
    /\ pc = "checkpoint"
    /\ IF best_model_score = NoScore \/ val_loss < best_model_score
       THEN /\ best_model_score' = val_loss
            /\ disk' = [p \in DOMAIN disk \cup {checkpoint_filepath(val_chromosome)} |->
                          IF p = checkpoint_filepath(val_chromosome)
                          THEN [fold |-> idx + 1, val_loss |-> val_loss]
                          ELSE disk[p]]
            /\ written' = written \cup
                 {[fold |-> idx + 1, path |-> checkpoint_filepath(val_chromosome)]}
       ELSE UNCHANGED <<best_model_score, disk, written>>
    /\ \/ val_checks < MaxValChecks /\ pc' = "train"
       \/ pc' = "test"
    /\ UNCHANGED <<rng_state, held_chromosomes, idx, val_loss, val_checks, loaded,
                   fold_status, fold_min_loss>>
    /\ UNCHANGED <<fwdVars, recastVars, dmVars, twinVars, preVars, litVars>>

\* trainer.test(model, data_module, ckpt_path=...): the checkpoint file is
\* loaded (a missing file raises) and the test partition is evaluated
Test ==
    /\ pc = "test"
    /\ IF ckpt_path(val_chromosome) \in DOMAIN disk
       THEN /\ loaded' = disk[ckpt_path(val_chromosome)]
            /\ pc' = "finish"
            /\ UNCHANGED fold_status
       ELSE /\ pc' = after_exception
            /\ fold_status' = [fold_status EXCEPT ![idx + 1] = "aborted"]
            /\ UNCHANGED loaded
    /\ UNCHANGED <<rng_state, held_chromosomes, idx, best_model_score, val_loss,
                   val_checks, disk, fold_min_loss, written>>
    /\ UNCHANGED <<fwdVars, recastVars, dmVars, twinVars, preVars, litVars>>

\* wandb.finish(), and the loop goes to its next iteration or ends
FinishFold ==
    /\ pc = "finish"
    /\ fold_status' = [fold_status EXCEPT ![idx + 1] = "finished"]
    /\ idx' = idx + 1
    /\ pc' = IF loop_finished(idx + 1) THEN "done" ELSE "split"
    /\ UNCHANGED <<rng_state, held_chromosomes, best_model_score, val_loss,
                   val_checks, disk, loaded, fold_min_loss, written>>
    /\ UNCHANGED <<fwdVars, recastVars, dmVars, twinVars, preVars, litVars>>

\* trainer.fit or trainer.test raises (divergence, resource exhaustion, ...)
FoldFails ==
    /\ pc \in {"train", "checkpoint", "test"}
    /\ pc' = after_exception
    /\ fold_status' = [fold_status EXCEPT ![idx + 1] = "aborted"]
    /\ UNCHANGED <<rng_state, held_chromosomes, idx, best_model_score, val_loss,
                   val_checks, disk, loaded, fold_min_loss, written>>
    /\ UNCHANGED <<fwdVars, recastVars, dmVars, twinVars, preVars, litVars>>

-----------------------------------------------------------------------------
(* _download_and_preprocess_data: dataset.filter(lambda example: ...,         *)
(* desc="Filter N's"), the same in both data modules                          *)

\* example["sequence"].count('N'): the number of places where the base stands
count(sequence, base) ==
    Cardinality({k \in DOMAIN sequence : sequence[k] = base})

\* the lambda: example["sequence"].count('N') < 0.005 * self.seq_len.  The right
\* side is a double; the comparison of the int with it is exact.  For the
\* sequence lengths of the model the double product differs from
\* seq_len / 200 by less than 1/200 and equals it when it is a whole number, so
\* the comparison is the one of count * 1000 with 5 * seq_len.
keep_example_at_threshold(sequence) == count(sequence, "N") * 1000 <= 5 * self_seq_len
keep_example(sequence) == count(sequence, "N") * 1000 < 5 * self_seq_len

\* DatasetDict.filter(function): every split keeps, in order, the examples for
\* which function is true; nothing is raised or reported for the others
filter_ns(ds) ==
    [train |-> SelectSeq(ds.train, keep_example), test |-> SelectSeq(ds.test, keep_example)]

FilterNs ==
    /\ pre_pc = "loaded"
    /\ sequences' = filter_ns(sequences)
    /\ pre_pc' = "filtered"
    /\ UNCHANGED <<self_seq_len, loaded_sequences>>
    /\ UNCHANGED <<fwdVars, recastVars, dmVars, cvVars, twinVars, litVars>>

-----------------------------------------------------------------------------
(* Lit_ChromatinFeatures: the accumulator lists, the steps and the epoch-end  *)
(* hooks, called by the trainer of trainer.fit and trainer.test               *)

NoMetrics == [kind |-> "none", labels |-> <<>>, preds |-> <<>>]
NoBatches == [training |-> <<>>, validation |-> <<>>, test |-> <<>>]

\* preds = (torch.sigmoid(logits) > 0.5).float(), flattened: sigmoid(x) > 0.5
\* exactly when x > 0
predict(logits) == [k \in DOMAIN logits |-> IF logits[k] > 0 THEN 1 ELSE 0]

\* list.extend(values)
extend(list, values) == list \o values

\* list.clear()
clear_nothing(list) == list
clear(list) == <<>>

\* setup(stage): the model and the criterion (not modelled) and four new lists
lit_setup ==
    /\ validation_step_preds' = <<>>
    /\ validation_step_labels' = <<>>
    /\ training_step_preds' = <<>>
    /\ training_step_labels' = <<>>

\* trainer.fit starts: the trainer calls the module's setup hook with stage "fit"
FitSetup ==
    /\ lit_pc = "constructed"
    /\ lit_setup
    /\ lit_pc' = "train"
    /\ last_call' = "setup"
    /\ UNCHANGED <<metric_inputs, executed, hook_batches, current_epoch, val_runs>>
    /\ UNCHANGED <<fwdVars, recastVars, dmVars, cvVars, twinVars, preVars>>

training_step(batch) ==
    /\ lit_pc = "train"
    /\ Len(executed.training) < MaxSteps
    /\ training_step_preds' = extend(training_step_preds, predict(batch.logits))
    /\ training_step_labels' = extend(training_step_labels, batch.labels)
    /\ executed' = [executed EXCEPT !.training = Append(@, batch)]
    /\ last_call' = "training_step"
    /\ UNCHANGED <<lit_pc, validation_step_preds, validation_step_labels,
                   metric_inputs, hook_batches, current_epoch, val_runs>>
    /\ UNCHANGED <<fwdVars, recastVars, dmVars, cvVars, twinVars, preVars>>

\* the trainer leaves the training batches for a validation loop
\* (val_check_interval), in the middle or at the end of a training epoch
StartValidation ==
    /\ lit_pc = "train"
    /\ val_runs < MaxLoops
    /\ lit_pc' = "validate"
    /\ val_runs' = val_runs + 1
    /\ UNCHANGED <<validation_step_preds, validation_step_labels, training_step_preds,
                   training_step_labels, metric_inputs, executed, hook_batches,
                   last_call, current_epoch>>
    /\ UNCHANGED <<fwdVars, recastVars, dmVars, cvVars, twinVars, preVars>>

validation_step(batch) ==
    /\ lit_pc = "validate"
    /\ Len(executed.validation) < MaxSteps
    /\ validation_step_preds' = extend(validation_step_preds, predict(batch.logits))
    /\ validation_step_labels' = extend(validation_step_labels, batch.labels)
    /\ executed' = [executed EXCEPT !.validation = Append(@, batch)]
    /\ last_call' = "validation_step"
    /\ UNCHANGED <<lit_pc, training_step_preds, training_step_labels,
                   metric_inputs, hook_batches, current_epoch, val_runs>>
    /\ UNCHANGED <<fwdVars, recastVars, dmVars, cvVars, twinVars, preVars>>

test_step(batch) ==
    /\ lit_pc = "test"
    /\ Len(executed.test) < MaxSteps
    /\ validation_step_preds' = extend(validation_step_preds, predict(batch.logits))
    /\ validation_step_labels' = extend(validation_step_labels, batch.labels)
    /\ executed' = [executed EXCEPT !.test = Append(@, batch)]
    /\ last_call' = "test_step"
    /\ UNCHANGED <<lit_pc, training_step_preds, training_step_labels,
                   metric_inputs, hook_batches, current_epoch, val_runs>>
    /\ UNCHANGED <<fwdVars, recastVars, dmVars, cvVars, twinVars, preVars>>

\* the validation loop ends after at least one batch
on_validation_epoch_end ==
    /\ lit_pc = "validate"
    /\ executed.validation # <<>>
    /\ metric_inputs' = [kind |-> "validation", labels |-> validation_step_labels,
                                 preds |-> validation_step_preds]
    /\ validation_step_labels' = clear(validation_step_labels)
    /\ validation_step_preds' = clear(validation_step_preds)
    /\ hook_batches' = executed.validation
    /\ executed' = [executed EXCEPT !.validation = <<>>]
    /\ last_call' = "on_validation_epoch_end"
    /\ lit_pc' = "train"
    /\ UNCHANGED <<training_step_preds, training_step_labels, current_epoch, val_runs>>
    /\ UNCHANGED <<fwdVars, recastVars, dmVars, cvVars, twinVars, preVars>>

\* the training epoch ends after at least one batch; trainer.fit goes on with
\* the next epoch or, once max_epochs are done, returns
on_train_epoch_end ==
    /\ lit_pc = "train"
    /\ executed.training # <<>>
    /\ metric_inputs' = [kind |-> "training", labels |-> training_step_labels,
                                 preds |-> training_step_preds]
    /\ training_step_labels' = clear(training_step_labels)
    /\ training_step_preds' = clear(training_step_preds)
    /\ hook_batches' = executed.training
    /\ executed' = [executed EXCEPT !.training = <<>>]
    /\ last_call' = "on_train_epoch_end"
    /\ current_epoch' = current_epoch + 1
    /\ \/ current_epoch + 1 < MaxLoops /\ lit_pc' = "train"
       \/ lit_pc' = "fitted"
    /\ UNCHANGED <<validation_step_preds, validation_step_labels, val_runs>>
    /\ UNCHANGED <<fwdVars, recastVars, dmVars, cvVars, twinVars, preVars>>

\* trainer.test starts: the trainer calls the module's setup hook with stage "test"
TestSetup ==
    /\ lit_pc = "fitted"
    /\ lit_setup
    /\ lit_pc' = "test"
    /\ last_call' = "setup"
    /\ UNCHANGED <<metric_inputs, executed, hook_batches, current_epoch, val_runs>>
    /\ UNCHANGED <<fwdVars, recastVars, dmVars, cvVars, twinVars, preVars>>

\* the test loop ends after at least one batch
on_test_epoch_end ==
    /\ lit_pc = "test"
    /\ executed.test # <<>>
    /\ metric_inputs' = [kind |-> "test", labels |-> validation_step_labels,
                                 preds |-> validation_step_preds]
    /\ validation_step_labels' = clear(validation_step_labels)
    /\ validation_step_preds' = clear(validation_step_preds)
    /\ hook_batches' = executed.test
    /\ executed' = [executed EXCEPT !.test = <<>>]
    /\ last_call' = "on_test_epoch_end"
    /\ lit_pc' = "tested"
    /\ UNCHANGED <<training_step_preds, training_step_labels, current_epoch, val_runs>>
    /\ UNCHANGED <<fwdVars, recastVars, dmVars, cvVars, twinVars, preVars>>

-----------------------------------------------------------------------------
(* A second run of the same function in a process of its own: the lines from  *)
(* np.random.seed(0) to np.random.choice                                      *)

\* np.random.seed(0)
TwinSeedGenerator ==
    /\ twin_pc = "seed"
    /\ twin_rng_state' = seed(0)
    /\ twin_pc' = "choose"
    /\ UNCHANGED <<twin_train, twin_held_chromosomes>>
    /\ UNCHANGED <<fwdVars, recastVars, dmVars, cvVars, preVars, litVars>>

\* candidates = np.unique(...); held_chromosomes = np.random.choice(candidates, 5,
\* replace=False)
TwinChooseHeldOut ==
    /\ twin_pc = "choose"
    /\ twin_held_chromosomes' = choice(unique(twin_train), NumFolds, twin_rng_state).out
    /\ twin_rng_state' = choice(unique(twin_train), NumFolds, twin_rng_state).state
    /\ twin_pc' = "drawn"
    /\ UNCHANGED twin_train
    /\ UNCHANGED <<fwdVars, recastVars, dmVars, cvVars, preVars, litVars>>

-----------------------------------------------------------------------------
(* The parts of the state a specification does not use *)

IdleForward ==
    /\ fwd_pc = "idle"
    /\ rcps = FALSE
    /\ bp_per_token = 1
    /\ embeds_out = <<>>
    /\ indices_ref = <<>>
    /\ indices_rc = <<>>
    /\ head_input = <<>>

IdleRecast ==
    /\ chromosome_column = <<>>
    /\ raw_chromosomes = <<>>
    /\ prev_chromosomes = <<>>
    /\ recast_calls = 0

IdleDataModule ==
    /\ prepared = None
    /\ dataset = None
    /\ test_dataset = <<>>
    /\ train_dataset = <<>>
    /\ val_dataset = <<>>
    /\ validation_chromosome = NoChromosome
    /\ last_split_arg = NoChromosome
    /\ split_count = 0

IdleRun ==
    /\ pc = "idle"
    /\ rng_state = 0
    /\ held_chromosomes = <<>>
    /\ idx = 0
    /\ best_model_score = NoScore
    /\ val_loss = NoScore
    /\ val_checks = 0
    /\ disk = <<>>
    /\ loaded = NoSnapshot
    /\ fold_status = <<>>
    /\ fold_min_loss = NoScore
    /\ written = {}

IdleTwin ==
    /\ twin_pc = "idle"
    /\ twin_train = <<>>
    /\ twin_rng_state = 0
    /\ twin_held_chromosomes = <<>>

IdlePreprocess ==
    /\ pre_pc = "idle"
    /\ self_seq_len = 0
    /\ loaded_sequences = <<>>
    /\ sequences = <<>>

IdleLit ==
    /\ lit_pc = "idle"
    /\ validation_step_preds = <<>>
    /\ validation_step_labels = <<>>
    /\ training_step_preds = <<>>
    /\ training_step_labels = <<>>
    /\ metric_inputs = NoMetrics
    /\ executed = NoBatches
    /\ hook_batches = <<>>
    /\ last_call = "none"
    /\ current_epoch = 0
    /\ val_runs = 0

-----------------------------------------------------------------------------
(* The chromosome column before the recast *)

InitRecast ==
    /\ chromosome_column \in [1..NumRecastExamples -> ChromosomeNames]
    /\ raw_chromosomes = chromosome_column
    /\ prev_chromosomes = <<>>
    /\ recast_calls = 0
    /\ IdleForward
    /\ IdleDataModule
    /\ IdleRun
    /\ IdleTwin
    /\ IdlePreprocess
    /\ IdleLit

NextRecast == MapRecastChromosome

SpecRecast == InitRecast /\ [][NextRecast]_vars

-----------------------------------------------------------------------------
(* A data module after construction, and calls of setup and _split_dataset *)

\* examples with ids first, first+1, ... and the chromosomes of chroms
Examples(chroms, first) ==
    [i \in DOMAIN chroms |-> [id |-> first + i - 1, chromosome |-> chroms[i]]]

\* the state after __init__: self.dataset = None, no split yet
Constructed ==
    /\ dataset = None
    /\ test_dataset = <<>>
    /\ train_dataset = <<>>
    /\ val_dataset = <<>>
    /\ validation_chromosome = NoChromosome
    /\ last_split_arg = NoChromosome
    /\ split_count = 0

InitSplit ==
    /\ \E tr \in [1..NumSplitExamples -> SplitChromosomes],
          te \in [1..NumTestExamples -> SplitChromosomes] :
         prepared = DatasetDict(Examples(tr, 1), Examples(te, NumSplitExamples + 1))
    /\ Constructed
    /\ IdleForward
    /\ IdleRecast
    /\ IdleRun
    /\ IdleTwin
    /\ IdlePreprocess
    /\ IdleLit

NextSplit == Setup \/ SplitDataset

SpecSplit == InitSplit /\ [][NextSplit]_vars

-----------------------------------------------------------------------------
(* A run of the cross-validation *)

\* The train partitions of the runs: one for every set of at least NumFolds
\* chromosomes that lacks at most one chromosome value (the benchmark's train
\* partition holds more chromosomes than the 5 that are drawn), its examples in
\* the order of their chromosomes, two examples for the least chromosome and
\* one for each other.  The generator
\* starts in any state (nothing seeds it before the run), and the checkpoint
\* directory of the run starts empty.
CandidateSets ==
    {S \in SUBSET ChromosomeValues :
        /\ Cardinality(S) >= NumFolds
        /\ Cardinality(S) >= Cardinality(ChromosomeValues) - 1}

TrainPartition(S) == Examples(<<sorted(S)[1]>> \o sorted(S), 1)

TestPartition(S) == Examples(<<sorted(S)[1], sorted(S)[2]>>, Cardinality(S) + 2)

RunStarts ==
    /\ \E S \in CandidateSets : prepared = DatasetDict(TrainPartition(S), TestPartition(S))
    /\ Constructed
    /\ pc = "start"
    /\ rng_state \in 0..15
    /\ held_chromosomes = <<>>
    /\ idx = 0
    /\ best_model_score = NoScore
    /\ val_loss = NoScore
    /\ val_checks = 0
    /\ disk = <<>>
    /\ loaded = NoSnapshot
    /\ fold_status = [k \in 1..NumFolds |-> "pending"]
    /\ fold_min_loss = NoScore
    /\ written = {}

InitRun ==
    /\ RunStarts
    /\ IdleForward
    /\ IdleRecast
    /\ IdleTwin
    /\ IdlePreprocess
    /\ IdleLit

NextRun ==
    \/ SetupRun
    \/ SeedGenerator
    \/ ChooseHeldOut
    \/ SplitFold
    \/ TrainAndValidate
    \/ CheckpointCallback
    \/ Test
    \/ FinishFold
    \/ FoldFails

SpecRun == InitRun /\ [][NextRun]_vars

\* the run is one thread of control: a step that can be taken is taken
FairSpecRun == SpecRun /\ WF_vars(NextRun)

-----------------------------------------------------------------------------
(* Two runs, each in its own process, up to the draw of the held-out          *)
(* chromosomes                                                                *)

\* the sequence s from its last entry to its first
Reverse(s) == [k \in DOMAIN s |-> s[Len(s) + 1 - k]]

\* train partitions with the chromosomes of S: the one of a run of SpecRun, and
\* one with the examples in the opposite order and the greatest chromosome
\* three times
TwinPartitions(S) ==
    {TrainPartition(S),
     Examples(<<sorted(S)[Cardinality(S)], sorted(S)[Cardinality(S)]>> \o Reverse(sorted(S)), 1)}

InitTwoRuns ==
    /\ RunStarts
    /\ twin_pc = "seed"
    /\ \E S \in CandidateSets : twin_train \in TwinPartitions(S)
    /\ twin_rng_state \in 0..15
    /\ twin_held_chromosomes = <<>>
    /\ IdleForward
    /\ IdleRecast
    /\ IdlePreprocess
    /\ IdleLit

NextTwoRuns ==
    \/ SetupRun
    \/ SeedGenerator
    \/ ChooseHeldOut
    \/ TwinSeedGenerator
    \/ TwinChooseHeldOut

SpecTwoRuns == InitTwoRuns /\ [][NextTwoRuns]_vars

-----------------------------------------------------------------------------
(* The loaded dataset before the filter of N's *)

\* configured sequence lengths: 0.005 * seq_len is 0.5, 1, 1.28 and 2
SeqLens == {100, 200, 256, 400}

Bases == <<"A", "C", "G", "T">>

\* a sequence of len bases of which n are "N": the first n ("front"), the
\* last n ("back")
Sequence(len, n, layout) ==
    [k \in 1..len |->
        IF (layout = "front" /\ k <= n) \/ (layout = "back" /\ k > len - n)
        THEN "N" ELSE Bases[(k % 4) + 1]]

SequenceInputs(len) ==
    {Sequence(len, n, layout) : n \in 0..MaxNCount, layout \in {"front", "back"}}

InitPreprocess ==
    /\ pre_pc = "loaded"
    /\ self_seq_len \in SeqLens
    /\ \E tr \in [1..NumPreExamples -> SequenceInputs(self_seq_len)],
          te \in SequenceInputs(self_seq_len) :
         sequences = [train |-> tr, test |-> <<te>>]
    /\ loaded_sequences = sequences
    /\ IdleForward
    /\ IdleRecast
    /\ IdleDataModule
    /\ IdleRun
    /\ IdleTwin
    /\ IdleLit

NextPreprocess == FilterNs

SpecPreprocess == InitPreprocess /\ [][NextPreprocess]_vars

-----------------------------------------------------------------------------
(* A Lit_ChromatinFeatures module after construction, and the calls of one    *)
(* trainer.fit followed by one trainer.test                                   *)

\* the batches of the steps: one logit and its label; a right and a wrong
\* prediction of label 1, and a wrong prediction of label 0
BatchInputs ==
    {[logits |-> <<1>>, labels |-> <<1>>], [logits |-> <<-1>>, labels |-> <<1>>],
     [logits |-> <<1>>, labels |-> <<0>>]}

\* __init__ calls self.setup(): the four lists are empty
InitLit ==
    /\ lit_pc = "constructed"
    /\ validation_step_preds = <<>>
    /\ validation_step_labels = <<>>
    /\ training_step_preds = <<>>
    /\ training_step_labels = <<>>
    /\ metric_inputs = NoMetrics
    /\ executed = NoBatches
    /\ hook_batches = <<>>
    /\ last_call = "setup"
    /\ current_epoch = 0
    /\ val_runs = 0
    /\ IdleForward
    /\ IdleRecast
    /\ IdleDataModule
    /\ IdleRun
    /\ IdleTwin
    /\ IdlePreprocess

NextLit ==
    \/ FitSetup
    \/ \E batch \in BatchInputs : training_step(batch)
    \/ StartValidation
    \/ \E batch \in BatchInputs : validation_step(batch)
    \/ on_validation_epoch_end
    \/ on_train_epoch_end
    \/ TestSetup
    \/ \E batch \in BatchInputs : test_step(batch)
    \/ on_test_epoch_end

SpecLit == InitLit /\ [][NextLit]_vars

-----------------------------------------------------------------------------
(* Inputs of the forward pass *)

\* bp_per_token values: small ones, and ones around the places where the
\* half width changes (200 // bp // 2 = 10, 5, 4, 3, 2, 1, 0)
BpPerTokenValues == (1..MaxBpPerToken) \cup {10, 20, 25, 33, 50, 67, 100, 101, 200, 201}

\* (token_count, bp_per_token): every small pair, and the scenario
\* token_count = 1000, bp_per_token = 1
ForwardShapes == ((1..MaxTokenCount) \X BpPerTokenValues) \cup {<<1000, 1>>}

ChannelCounts == {2, 4}

HotTokens(T) == IF T <= MaxTokenCount THEN 0..(T - 1) ELSE {0, T \div 2, T - 1}

\* an embedding tensor with a single entry 1 and 0 elsewhere: pooling is
\* linear in the embeddings, so these span every embedding
OneHot(B, T, C, hb, ht, hc) ==
    [b \in 0..(B - 1) |-> [tok \in 0..(T - 1) |-> [c \in 0..(C - 1) |->
        IF b = hb /\ tok = ht /\ c = hc THEN 1 ELSE 0]]]

InitForward ==
    /\ fwd_pc = "call"
    /\ rcps \in BOOLEAN
    /\ \E shape \in ForwardShapes, B \in 1..MaxBatchSize, C \in ChannelCounts :
         /\ bp_per_token = shape[2]
         /\ \E hb \in 0..(B - 1), ht \in HotTokens(shape[1]), hc \in 0..(C - 1) :
              embeds_out = OneHot(B, shape[1], C, hb, ht, hc)
    /\ indices_ref = <<>>
    /\ indices_rc = <<>>
    /\ head_input = <<>>
    /\ IdleRecast
    /\ IdleDataModule
    /\ IdleRun
    /\ IdleTwin
    /\ IdlePreprocess
    /\ IdleLit

NextForward == ForwardRcps \/ ForwardPlain

SpecForward == InitForward /\ [][NextForward]_vars

-----------------------------------------------------------------------------
(* Properties of the forward pass *)

Returned == fwd_pc = "returned"
TokenCount == Size(embeds_out[0])
ChannelCount == Size(embeds_out[0][0])
Batch == DOMAIN embeds_out

\* every index row forward used (one per batch element and gather)
IndexRows ==
    {indices_ref[b] : b \in DOMAIN indices_ref} \cup {indices_rc[b] : b \in DOMAIN indices_rc}

Occurrences(row, i) == Cardinality({k \in DOMAIN row : row[k] = i})

InRange(row) == \A k \in DOMAIN row : 0 <= row[k] /\ row[k] <= TokenCount - 1

\* C1 as stated: the window indices of both branches lie in [0, token_count-1],
\* and the number of indices returned is odd and <= token_count.
C1_AsStated ==
    Returned =>
        \A row \in IndexRows :
            InRange(row) /\ Len(row) % 2 = 1 /\ Len(row) <= TokenCount

\* C1 amended: the window indices of both branches lie in [0, token_count-1], the
\* number of indices returned is odd (it may exceed token_count), and the number
\* of distinct indices returned is <= token_count.
C1_IndicesInRangeOddCount ==
    Returned =>
        \A row \in IndexRows :
            /\ InRange(row)
            /\ Len(row) % 2 = 1
            /\ Cardinality({row[k] : k \in DOMAIN row}) <= TokenCount

C1_Witness ==
    /\ Returned /\ rcps
    /\ TokenCount = 2
    /\ Len(indices_ref[0]) = 21 /\ Len(indices_rc[0]) = 21

DegenerateCase == Returned /\ TokenCount = 5 /\ bp_per_token = 10

\* C2 as stated: with token_count = 5 and bp_per_token = 10 (half-width 10) every
\* returned index is 0 or token_count-1.
C2_AsStated ==
    DegenerateCase => \A row \in IndexRows : \A k \in DOMAIN row : row[k] \in {0, TokenCount - 1}

\* C2 amended: with token_count = 5 and bp_per_token = 10 (half-width 10) every
\* index whose raw position center + k lies outside [0, token_count-1] is returned
\* as exactly 0 or token_count-1, and every interior index 1..token_count-2 is
\* returned exactly once.
C2_ClampedToBoundary ==
    DegenerateCase =>
        \A row \in IndexRows :
            /\ \A k \in DOMAIN row :
                 LET raw == TokenCount \div 2 + (k - 1 - 10)
                 IN  /\ InRange(row)
                     /\ (raw < 0 \/ raw > TokenCount - 1) => row[k] \in {0, TokenCount - 1}
            /\ \A i \in 1..(TokenCount - 2) : Occurrences(row, i) = 1

C2_Witness ==
    /\ DegenerateCase
    /\ Occurrences(indices_ref[0], 0) = 9
    /\ Occurrences(indices_ref[0], 2) = 1
    /\ Occurrences(indices_ref[0], 4) = 9

Min(a, b) == IF a <= b THEN a ELSE b
Max(a, b) == IF a >= b THEN a ELSE b

\* the reference window: h = floor(200 / bp_per_token / 2) with one floor of the
\* real quotient 200 / (2 bp), c = floor(token_count / 2)
ReferenceHalfWidth == 200 \div (2 * bp_per_token)
ReferenceWindow ==
    [k \in 1..(2 * ReferenceHalfWidth + 1) |->
        Min(Max(TokenCount \div 2 + (k - 1 - ReferenceHalfWidth), 0), TokenCount - 1)]

\* C3: the index list forward uses is the reference list
\* [clamp(c + k, 0, token_count-1) : k = -h..h], has 2h+1 entries and is the same
\* for every example of the batch; token_count = 1000 and bp_per_token = 1 give
\* the indices 400..600.
C3_WindowIsReference ==
    Returned =>
        /\ \A row \in IndexRows :
             row = ReferenceWindow /\ Len(row) = 2 * ReferenceHalfWidth + 1
        /\ \A b \in Batch : indices_ref[b] = indices_ref[0]
        /\ (TokenCount = 1000 /\ bp_per_token = 1) =>
             \A row \in IndexRows : row = [k \in 1..201 |-> 399 + k]

C3_Witness ==
    /\ Returned
    /\ TokenCount = 1000 /\ bp_per_token = 1
    /\ Size(embeds_out) = 2
    /\ indices_ref[1][1] = 400 /\ indices_ref[1][201] = 600

\* the sum of channel c of every token of example b
SumAllTokens(b, c) == SumSeq([k \in 1..TokenCount |-> embeds_out[b][k - 1][c]])

CoversEveryToken(row) == \A i \in 0..(TokenCount - 1) : Occurrences(row, i) >= 1

CoversEveryTokenEqually(row) ==
    \A i \in 0..(TokenCount - 1) :
        Occurrences(row, i) >= 1 /\ Occurrences(row, i) = Occurrences(row, 0)

PooledIsMeanOfAllTokens ==
    \A b \in Batch : \A c \in DOMAIN head_input[b] :
        head_input[b][c].num * TokenCount = SumAllTokens(b, c) * head_input[b][c].den

\* C4 as stated: with rcps = false, whenever the clamped window indices cover
\* every token, the pooled vector is the arithmetic mean of all tokens.
C4_AsStated ==
    (Returned /\ ~rcps /\ \A b \in Batch : CoversEveryToken(indices_ref[b]))
        => PooledIsMeanOfAllTokens

\* C4 amended: with rcps = false, whenever every token index occurs among the
\* clamped window indices and all of them occur the same number of times (no
\* boundary token is repeated more often than the others by clamping), the pooled
\* vector is the arithmetic mean of all tokens.
C4_EqualCoverIsMean ==
    (Returned /\ ~rcps /\ \A b \in Batch : CoversEveryTokenEqually(indices_ref[b]))
        => /\ PooledIsMeanOfAllTokens
           /\ \A b \in Batch : \A c \in DOMAIN head_input[b] :
                head_input[b][c].den = Len(indices_ref[b])

C4_Witness ==
    /\ Returned /\ ~rcps
    /\ TokenCount = 5
    /\ \A b \in Batch : CoversEveryTokenEqually(indices_ref[b])
    /\ \E b \in Batch : \E c \in DOMAIN head_input[b] : head_input[b][c].num = 1

\* C5: with rcps = true the pooled vector has C/2 channels and
\* pooled[b][c] = mean_k E[b][w_k][c] + mean_k E[b][T-1-w_k][C-1-c], both halves
\* gathered at the same indices w.
C5_RcpsPooling ==
    (Returned /\ rcps) =>
        \A b \in Batch :
            /\ DOMAIN head_input[b] = 0..(ChannelCount \div 2 - 1)
            /\ indices_rc[b] = indices_ref[b]
            /\ \A c \in DOMAIN head_input[b] :
                 LET w == indices_ref[b]
                     n == Len(w)
                     fwd == SumSeq([k \in DOMAIN w |-> embeds_out[b][w[k]][c]])
                     rc == SumSeq([k \in DOMAIN w |->
                              embeds_out[b][TokenCount - 1 - w[k]][ChannelCount - 1 - c]])
                 IN  head_input[b][c].num * n = (fwd + rc) * head_input[b][c].den

C5_Witness ==
    /\ Returned /\ rcps
    /\ ChannelCount = 4
    /\ embeds_out[0][0][2] = 1
    /\ head_input[0][1].num > 0
    /\ head_input[0][0].num = 0

-----------------------------------------------------------------------------
(* Properties of recast_chromosome *)

\* what the recast of a downloaded name is to be: -1 for "X" and "Y", n for the
\* decimal name of n
RecastOf(name) ==
    IF name \in {PyStr(<<"X">>), PyStr(<<"Y">>)} THEN PyInt(-1)
    ELSE PyInt(CHOOSE n \in 1..22 : PyStr(AutosomeName(n)) = name)

\* C6: recast_chromosome is total on {"1",...,"22","X","Y"}: "X" and "Y" map to -1
\* and "n" to the integer n; applied to an already recast value (an integer of
\* 1..22 or -1) it returns that value.
C6_RecastTotalIdempotent ==
    /\ recast_calls >= 1 =>
         \A i \in DOMAIN chromosome_column :
            /\ chromosome_column[i].kind = "int"
            /\ chromosome_column[i].n \in (1..22) \cup {-1}
            /\ chromosome_column[i] = RecastOf(raw_chromosomes[i])
    /\ recast_calls >= 2 => chromosome_column = prev_chromosomes

C6_Witness ==
    /\ recast_calls = 2
    /\ raw_chromosomes[1] = PyStr(<<"Y">>)
    /\ raw_chromosomes[2] = PyStr(<<"2", "1">>)
    /\ prev_chromosomes = <<PyInt(-1), PyInt(21)>>
    /\ chromosome_column = <<PyInt(-1), PyInt(21)>>

-----------------------------------------------------------------------------
(* Properties of _split_dataset *)

Ids(ds) == {ds[i].id : i \in DOMAIN ds}

\* C7: after any sequence of _split_dataset calls, train_dataset and val_dataset
\* are disjoint, together they are the whole training partition, val_dataset
\* holds exactly the training examples of the chromosome of the latest call and
\* train_dataset exactly the others, whatever the earlier calls were; the test
\* partition is the same after every split.
C7_SplitPartitionsTrain ==
    split_count >= 1 =>
        LET whole == prepared.train
        IN  /\ Ids(train_dataset) \cap Ids(val_dataset) = {}
            /\ Ids(train_dataset) \cup Ids(val_dataset) = Ids(whole)
            /\ Len(train_dataset) + Len(val_dataset) = Len(whole)
            /\ \A i \in DOMAIN whole :
                 /\ (whole[i].chromosome = last_split_arg) <=>
                        (\E j \in DOMAIN val_dataset : val_dataset[j] = whole[i])
                 /\ (whole[i].chromosome # last_split_arg) <=>
                        (\E j \in DOMAIN train_dataset : train_dataset[j] = whole[i])
            /\ test_dataset = prepared.test
            /\ dataset = prepared

C7_Witness ==
    /\ split_count = 2
    /\ last_split_arg = 1
    /\ Len(val_dataset) = 2
    /\ Len(train_dataset) = 1
    /\ train_dataset[1].chromosome = -1
    /\ Len(test_dataset) = NumTestExamples

-----------------------------------------------------------------------------
(* Properties of the cross-validation run *)

\* the phase a position of the run belongs to
PhaseOf(p) ==
    CASE p \in {"start", "seed", "choose"} -> "INIT"
      [] p = "split" -> "SPLIT"
      [] p = "train" -> "TRAIN"
      [] p = "checkpoint" -> "CHECKPOINT_SELECT"
      [] p \in {"test", "finish"} -> "EVALUATE"
      [] p = "done" -> "DONE"
      [] OTHER -> "FAILED"

FoldPhases == {"SPLIT", "TRAIN", "CHECKPOINT_SELECT", "EVALUATE"}

\* INIT, then per fold SPLIT, TRAIN, CHECKPOINT_SELECT, EVALUATE, then DONE; a
\* fold may fail
StatedOrder ==
    {<<"INIT", "SPLIT">>, <<"SPLIT", "TRAIN">>, <<"TRAIN", "CHECKPOINT_SELECT">>,
     <<"CHECKPOINT_SELECT", "EVALUATE">>, <<"EVALUATE", "SPLIT">>, <<"EVALUATE", "DONE">>}
    \cup {<<ph, ph>> : ph \in FoldPhases \cup {"INIT", "DONE", "FAILED"}}
    \cup {<<ph, "FAILED">> : ph \in FoldPhases}

\* a step of the run takes the phase along a pair of order
StepIn(order) == (<<PhaseOf(pc), PhaseOf(pc')>>) \in order

FoldsInOrder ==
    /\ Cardinality({k \in DOMAIN fold_status : fold_status[k] = "active"}) <= 1
    /\ \A k \in DOMAIN fold_status :
         (k > 1 /\ fold_status[k] # "pending") => fold_status[k - 1] = "finished"
    /\ \A k \in DOMAIN fold_status :
         fold_status[k] = "active" => (k = idx + 1 /\ PhaseOf(pc) \in FoldPhases)

DoneAfterAllFolds ==
    pc = "done" =>
        /\ idx = 5
        /\ DOMAIN fold_status = 1..5
        /\ \A k \in DOMAIN fold_status : fold_status[k] = "finished"

\* an upper bound of the number of steps the run still takes
StepsOfFold == 2 * MaxValChecks + 3

StepsLeft ==
    CASE pc = "start" -> NumFolds * StepsOfFold + 3
      [] pc = "seed" -> NumFolds * StepsOfFold + 2
      [] pc = "choose" -> NumFolds * StepsOfFold + 1
      [] pc = "split" -> (NumFolds - idx - 1) * StepsOfFold + StepsOfFold
      [] pc = "train" ->
            (NumFolds - idx - 1) * StepsOfFold + 2 * (MaxValChecks - val_checks) + 2
      [] pc = "checkpoint" ->
            (NumFolds - idx - 1) * StepsOfFold + 2 * (MaxValChecks - val_checks) + 3
      [] pc = "test" -> (NumFolds - idx - 1) * StepsOfFold + 2
      [] pc = "finish" -> (NumFolds - idx - 1) * StepsOfFold + 1
      [] OTHER -> 0

\* a run that is not over has a next step other than a failure (the draw of
\* the held-out chromosomes has no condition but its place in the run)
CanGoOn ==
    \/ pc \in {"done", "failed", "choose"}
    \/ ENABLED ((SetupRun \/ SeedGenerator \/ SplitFold \/ TrainAndValidate
                    \/ CheckpointCallback \/ Test \/ FinishFold) /\ pc' # "failed")

\* C8 as stated: the phases of a run follow INIT, then per held-out chromosome
\* SPLIT, TRAIN, CHECKPOINT_SELECT, EVALUATE, in this order.
C8_AsStated == [][StepIn(StatedOrder)]_vars

\* C8 amended: the phases of a run follow INIT, then per held-out chromosome
\* SPLIT, then TRAIN and CHECKPOINT_SELECT in alternation (the checkpoint is
\* decided after every validation inside trainer.fit, and training may resume
\* after it), then EVALUATE; a fold's SPLIT starts only after the fold before it
\* has finished its EVALUATE, at most one fold is active, and a run in which no
\* fold fails ends DONE after exactly 5 folds.  (The run ends: until it is DONE
\* or has failed it has a next step that is not a failure, and every step
\* lowers StepsLeft, so the thread of FairSpecRun cannot go on for ever.)
C8_PhasesInOrder ==
    /\ [][StepIn(StatedOrder \cup {<<"CHECKPOINT_SELECT", "TRAIN">>})]_vars
    /\ [](FoldsInOrder /\ DoneAfterAllFolds)
    /\ []CanGoOn
    /\ [][StepsLeft' < StepsLeft]_vars

C8_Witness ==
    /\ pc = "done"
    /\ val_checks = MaxValChecks
    /\ \A k \in 1..5 : fold_status[k] = "finished"

\* the chromosomes of the training partition
TrainChromosomes == {prepared.train[i].chromosome : i \in DOMAIN prepared.train}

HeldOutDrawn == pc \notin {"start", "seed", "choose"}

C10_FailureIsFatal ==
    /\ [](\A k \in DOMAIN fold_status :
            fold_status[k] = "aborted" =>
                /\ pc = "failed"
                /\ k = idx + 1
                /\ \A later \in DOMAIN fold_status : later > k => fold_status[later] = "pending")
    /\ [][pc = "failed" => (pc' = "failed" /\ idx' = idx /\ fold_status' = fold_status)]_vars
    /\ [][(pc \in {"train", "checkpoint", "test"} /\ fold_status'[idx + 1] = "aborted")
            => pc' = "failed"]_vars

C10_Witness ==
    /\ pc = "failed"
    /\ idx = 2
    /\ fold_status = <<"finished", "finished", "aborted", "pending", "pending">>
    /\ val_checks = 1

-----------------------------------------------------------------------------
(* C11 *)

\* the chromosome identifiers of a partition
ChromosomeSet(ds) == {ds[i].chromosome : i \in DOMAIN ds}

BothDrawn == HeldOutDrawn /\ twin_pc = "drawn"

\* C11: two runs over train partitions with the same set of chromosome
\* identifiers hold the same 5 held-out chromosomes in the same order, whatever
\* the order and number of the examples and whatever state the generators were
\* in before; at the draw each generator is in the state seed 0 gives.
C11_SelectionDeterministic ==
    /\ (BothDrawn /\ ChromosomeSet(dataset.train) = ChromosomeSet(twin_train))
            => held_chromosomes = twin_held_chromosomes
    /\ pc = "choose" => rng_state = 0
    /\ twin_pc = "choose" => twin_rng_state = 0

C11_Witness ==
    /\ BothDrawn
    /\ ChromosomeSet(dataset.train) = ChromosomeSet(twin_train)
    /\ dataset.train # twin_train
    /\ Len(held_chromosomes) = 5
    /\ held_chromosomes = twin_held_chromosomes

-----------------------------------------------------------------------------
(* C12 *)

\* the original token positions the rc half is read at: rc_embeds is the upper
\* channel half flipped along the tokens, so its token i is original token
\* token_count - 1 - i
OriginalPositions(row) == [k \in DOMAIN row |-> TokenCount - 1 - row[k]]

SameMultiset(r1, r2) ==
    \A i \in 0..(TokenCount - 1) : Occurrences(r1, i) = Occurrences(r2, i)

\* the clamped window of half width ReferenceHalfWidth around the token center
WindowAround(center) ==
    [k \in 1..(2 * ReferenceHalfWidth + 1) |->
        Min(Max(center + (k - 1 - ReferenceHalfWidth), 0), TokenCount - 1)]

\* C12 as stated: for every token_count and half-width the multiset of clamped
\* window indices is invariant under i -> token_count-1-i, so the rc half is
\* read at the same original token positions as the forward half.
C12_AsStated ==
    (Returned /\ rcps) =>
        \A b \in Batch : SameMultiset(OriginalPositions(indices_rc[b]), indices_ref[b])

\* C12 amended: the multiset of clamped window indices is invariant under
\* i -> token_count-1-i exactly when token_count is odd.  The rc half is read
\* at the original positions of the clamped window around
\* token_count - 1 - token_count // 2 (taken from its high end to its low end):
\* for an odd token_count that is the forward window, for an even token_count
\* it is the window one token below the forward window.
C12_SymmetricIffOddCount ==
    (Returned /\ rcps) =>
        \A b \in Batch :
            /\ indices_rc[b] = indices_ref[b]
            /\ SameMultiset(OriginalPositions(indices_rc[b]), indices_ref[b])
                    <=> TokenCount % 2 = 1
            /\ OriginalPositions(indices_rc[b])
                    = Reverse(WindowAround(TokenCount - 1 - TokenCount \div 2))
            /\ TokenCount % 2 = 0 =>
                    /\ indices_ref[b] = WindowAround(TokenCount \div 2)
                    /\ OriginalPositions(indices_rc[b])
                            = Reverse(WindowAround(TokenCount \div 2 - 1))

C12_Witness ==
    /\ Returned
    /\ rcps
    /\ TokenCount = 6
    /\ bp_per_token = 100
    /\ indices_ref[0] = <<2, 3, 4>>
    /\ indices_rc[0] = <<2, 3, 4>>
    /\ OriginalPositions(indices_rc[0]) = <<3, 2, 1>>

-----------------------------------------------------------------------------
(* C13 *)

Filtered == pre_pc = "filtered"

\* the number of "N" in a sequence, counted place by place
NsIn(sequence) == SumSeq([k \in DOMAIN sequence |-> IF sequence[k] = "N" THEN 1 ELSE 0])

Splits == {"train", "test"}

Kept(split, sequence) ==
    \E j \in DOMAIN sequences[split] : sequences[split][j] = sequence

\* C13 as stated: a sequence is dropped exactly when its number of N's is above
\* 0.5% of the configured sequence length; one at or below it is kept.
C13_AsStated ==
    Filtered =>
        \A split \in Splits : \A i \in DOMAIN loaded_sequences[split] :
            Kept(split, loaded_sequences[split][i])
                <=> ~(NsIn(loaded_sequences[split][i]) * 200 > self_seq_len)

\* C13 amended: a sequence is dropped exactly when its number of N's is at or
\* above 0.5% of the configured sequence length (count >= 0.005 * seq_len), so
\* one whose count equals the threshold is dropped; one strictly below it is
\* kept; the kept sequences stay in their order, and the filter never fails.
C13_DroppedAtOrAboveThreshold ==
    /\ pre_pc \in {"idle", "loaded", "filtered"}
    /\ Filtered =>
        \A split \in Splits :
            /\ \A i \in DOMAIN loaded_sequences[split] :
                  Kept(split, loaded_sequences[split][i])
                      <=> NsIn(loaded_sequences[split][i]) * 200 < self_seq_len
            /\ sequences[split] =
                  SelectSeq(loaded_sequences[split],
                            LAMBDA sequence : NsIn(sequence) * 200 < self_seq_len)

C13_Witness ==
    /\ Filtered
    /\ self_seq_len = 400
    /\ \E i \in DOMAIN loaded_sequences.train :
         /\ NsIn(loaded_sequences.train[i]) = 2
         /\ ~Kept("train", loaded_sequences.train[i])
    /\ \E i \in DOMAIN loaded_sequences.train :
         /\ NsIn(loaded_sequences.train[i]) = 1
         /\ Kept("train", loaded_sequences.train[i])

-----------------------------------------------------------------------------
(* C14 *)

\* the labels of a sequence of batches, flattened in the order of the steps
RECURSIVE LabelsOf(_)
LabelsOf(batches) ==
    IF batches = <<>> THEN <<>>
    ELSE LabelsOf(SubSeq(batches, 1, Len(batches) - 1)) \o batches[Len(batches)].labels

\* the predicted classes of a sequence of batches: 1 where the logit is positive
RECURSIVE PredsOf(_)
PredsOf(batches) ==
    IF batches = <<>> THEN <<>>
    ELSE PredsOf(SubSeq(batches, 1, Len(batches) - 1))
            \o [k \in DOMAIN batches[Len(batches)].logits |->
                    IF batches[Len(batches)].logits[k] > 0 THEN 1 ELSE 0]

\* the steps that fill the validation lists: test steps in the test loop,
\* validation steps before
EvalStepsSinceHook == IF lit_pc = "test" THEN executed.test ELSE executed.validation

\* C14: in the calls a trainer makes (fit with validation loops in the middle
\* or at the end of training epochs, then test), each epoch-end hook hands the
\* metrics exactly the predictions and labels of the steps of its kind since
\* the previous epoch end of that kind; the prediction and label lists have
\* equal length at every moment between calls and hold exactly the steps
\* since the latest epoch end; both lists of a hook are empty right after it;
\* the test hook sees test steps only.
C14_HooksSeeTheirEpoch ==
    /\ Len(validation_step_preds) = Len(validation_step_labels)
    /\ Len(training_step_preds) = Len(training_step_labels)
    /\ lit_pc # "idle" =>
        /\ training_step_preds = PredsOf(executed.training)
        /\ training_step_labels = LabelsOf(executed.training)
        /\ validation_step_preds = PredsOf(EvalStepsSinceHook)
        /\ validation_step_labels = LabelsOf(EvalStepsSinceHook)
        /\ lit_pc = "test" => executed.validation = <<>>
    /\ metric_inputs.kind # "none" =>
        /\ metric_inputs.preds = PredsOf(hook_batches)
        /\ metric_inputs.labels = LabelsOf(hook_batches)
        /\ hook_batches # <<>>
    /\ last_call \in {"on_validation_epoch_end", "on_test_epoch_end"} =>
        /\ validation_step_preds = <<>>
        /\ validation_step_labels = <<>>
    /\ last_call = "on_train_epoch_end" =>
        /\ training_step_preds = <<>>
        /\ training_step_labels = <<>>

C14_Witness ==
    /\ last_call = "on_test_epoch_end"
    /\ metric_inputs = [kind |-> "test", labels |-> <<1, 0>>, preds |-> <<0, 1>>]
    /\ current_epoch = 1
    /\ val_runs = 2
    /\ validation_step_preds = <<>>
    /\ validation_step_labels = <<>>

====
